---- MODULE Spec2Model ----
(***************************************************************************)
(* Rent indexation (VPI) application: the eligibility engine of            *)
(* app/api/tenancies/route.ts (GET), the date/key utilities of             *)
(* lib/dateKeys.ts and the confirmation workflow of                        *)
(* app/api/indexations/confirm/route.ts (POST).                            *)
(*                                                                         *)
(* Conventions                                                             *)
(*  - A JS number is an exact rational [tag, n, d] with d > 0; tag "null"  *)
(*    is JS null/undefined. The engine carries full-precision fractions.   *)
(*  - A JS Date is [k, y, m0, d, t]: k = "date" (a valid instant),         *)
(*    "invalid" (Invalid Date, time value NaN) or "null" (no object).      *)
(*    m0 is the 0-based month, t the time of day in ticks                  *)
(*    (0 = midnight). The server's local time zone is UTC, so local and    *)
(*    UTC calendar fields agree.                                           *)
(*  - A date string coming from the ERP is [form, y, m, d]:                *)
(*    "none" (null/false/""), "iso" ("YYYY-MM-DD"), "ym" ("YYYY-MM"),      *)
(*    "dmy" ("DD/MM/YYYY"), "my" ("MM/YYYY"), "text" (a written-out date   *)
(*    such as "June 15, 2024") and "junk" (a non-empty string no parser    *)
(*    accepts).                                                            *)
(***************************************************************************)
EXTENDS Integers, Sequences, FiniteSets, TLC

\* ------------------------------------------------------------------ bounds

\* Ticks of one day: tick 0 is midnight, the others are later in the day.
TicksPerDay == 2

\* ----------------------------------------------------------------- numbers

RECURSIVE Gcd(_, _)
Gcd(a, b) == IF b = 0 THEN a ELSE Gcd(b, a % b)
Abs(a) == IF a < 0 THEN -a ELSE a

NumNull == [tag |-> "null", n |-> 0, d |-> 1]
\* The number a / b (b > 0), in lowest terms.
Num(a, b) ==
  LET g == Gcd(Abs(a), b)
  IN [tag |-> "num", n |-> a \div g, d |-> b \div g]
Pct(p) == Num(p, 1000)

IsNum(x) == x.tag = "num"
\* JS truthiness of number | null: null and 0 are falsy.
Truthy(x) == IsNum(x) /\ x.n # 0

RatEq(a, b) == a.n * b.d = b.n * a.d
RatLT(a, b) == a.n * b.d < b.n * a.d
RatLE(a, b) == a.n * b.d <= b.n * a.d
RatMul(a, b) == Num(a.n * b.n, a.d * b.d)
RatMin(a, b) == IF RatLE(a, b) THEN a ELSE b
Zero == Num(0, 1)
One == Num(1, 1)

\* Same optional number: both null, or both numbers of equal value.
NumSame(a, b) == a.tag = b.tag /\ (IsNum(a) => RatEq(a, b))

\* ------------------------------------------------------------------- dates

NullDate == [k |-> "null", y |-> 0, m0 |-> 0, d |-> 0, t |-> 0]
InvalidDate == [k |-> "invalid", y |-> 0, m0 |-> 0, d |-> 0, t |-> 0]
MkDate(y, m0, d, t) == [k |-> "date", y |-> y, m0 |-> m0, d |-> d, t |-> t]

NoStr == [form |-> "none", y |-> 0, m |-> 0, d |-> 0]
JunkStr == [form |-> "junk", y |-> 0, m |-> 0, d |-> 0]
Iso(y, m, d) == [form |-> "iso", y |-> y, m |-> m, d |-> d]
Dmy(d, m, y) == [form |-> "dmy", y |-> y, m |-> m, d |-> d]

\* JS truthiness of a date string: only the absent value is falsy.
StrTruthy(s) == s.form # "none"

\* The time value of a Date, as an integer that orders instants.
TimeValue(x) == (((x.y * 12 + x.m0) * 32) + x.d) * TicksPerDay + x.t

\* a <= b and a >= b on Dates: false whenever an operand is Invalid Date (NaN).
DateLE(a, b) == a.k = "date" /\ b.k = "date" /\ TimeValue(a) <= TimeValue(b)
DateGE(a, b) == a.k = "date" /\ b.k = "date" /\ TimeValue(a) >= TimeValue(b)

Ym(y, m) == [form |-> "ym", y |-> y, m |-> m, d |-> 0]
My(m, y) == [form |-> "my", y |-> y, m |-> m, d |-> 0]
Text(y, m, d) == [form |-> "text", y |-> y, m |-> m, d |-> d]

\* Date.parse(s) of the Node runtime: an ISO date is midnight UTC of that day
\* and an ISO month that of its first day; a written-out date is local
\* midnight; NN/NN/YYYY is read month first, so it is a date only when the
\* first number is a month; anything else is NaN.
DateParse(s) ==
  IF s.form \in {"iso", "text"} THEN MkDate(s.y, s.m - 1, s.d, 0)
  ELSE IF s.form = "ym" THEN MkDate(s.y, s.m - 1, 1, 0)
  ELSE IF s.form = "dmy" /\ s.d <= 12 THEN MkDate(s.y, s.d - 1, s.m, 0)
  ELSE InvalidDate

IsLeap(y) == (y % 4 = 0 /\ y % 100 # 0) \/ y % 400 = 0

\* new Date(year, month0 + 1, 0).getDate()
daysInMonth(year, month0) ==
  IF month0 = 1 THEN (IF IsLeap(year) THEN 29 ELSE 28)
  ELSE IF month0 \in {3, 5, 8, 10} THEN 30 ELSE 31

\* Date.prototype.setDate(day) for 1 <= day <= 31: a day past the month's end
\* overflows into the following month.
SetDate(x, day) ==
  IF x.k # "date" THEN InvalidDate
  ELSE LET dim == daysInMonth(x.y, x.m0)
       IN IF day <= dim THEN [x EXCEPT !.d = day]
          ELSE IF x.m0 = 11 THEN [x EXCEPT !.y = x.y + 1, !.m0 = 0, !.d = day - dim]
          ELSE [x EXCEPT !.m0 = x.m0 + 1, !.d = day - dim]

\* Date.prototype.setMonth(m): m outside 0..11 carries into the year, and the
\* day of month is kept, overflowing when the target month is shorter.
SetMonth(x, m) ==
  IF x.k # "date" THEN InvalidDate
  ELSE SetDate([x EXCEPT !.y = x.y + (m \div 12), !.m0 = m % 12, !.d = 1], x.d)

Min(a, b) == IF a <= b THEN a ELSE b

addMonths_noClamp(x, months) ==
  IF x.k # "date" THEN InvalidDate ELSE SetMonth(x, x.m0 + months)

addMonths(x, months) ==
  IF x.k # "date" THEN InvalidDate
  ELSE LET day == x.d
           first == SetDate(x, 1)
           moved == SetMonth(first, first.m0 + months)
       IN SetDate(moved, Min(day, daysInMonth(moved.y, moved.m0)))

\* addMonthsToFirstOfMonth of the confirmation route: null (NoStr) when the
\* string is not a date for the runtime, else the first of the UTC month of
\* the date moved by months, as "YYYY-MM-01".
addMonthsToFirstOfMonth(dateStr, months) ==
  LET d == DateParse(dateStr)
  IN IF d.k # "date" THEN NoStr
     ELSE LET base == SetMonth(MkDate(d.y, d.m0, 1, 0), d.m0 + months)
          IN Iso(base.y, base.m0 + 1, 1)

\* pause_between_indexation is ui_row.waiting_time when that is a number; the
\* date is computed from it when it is finite, else it is ui_row.next_wait_date.
next_possible_indexation_date(effective_date, waiting_time, next_wait_date) ==
  IF StrTruthy(effective_date) /\ waiting_time.num /\ waiting_time.fin
  THEN addMonthsToFirstOfMonth(effective_date, waiting_time.v)
  ELSE next_wait_date

\* -------------------------------------------------------------------- keys

NullKey == [k |-> "null", mm |-> 0, yyyy |-> 0]
MonthKey(mm, yyyy) == [k |-> "month", mm |-> mm, yyyy |-> yyyy]
YearKey(yyyy) == [k |-> "year", mm |-> 0, yyyy |-> yyyy]

monthKey(x) == MonthKey(x.m0 + 1, x.y)

prevMonthKey_noSetDate(from) == monthKey(SetMonth(from, from.m0 - 1))

prevMonthKey(from) ==
  LET first == SetDate(from, 1)
  IN monthKey(SetMonth(first, first.m0 - 1))

parseToMonthKey_fallbackFirst(s) ==
  IF s.form = "none" THEN NullKey
  ELSE LET t == DateParse(s)
       IN IF t.k = "date" THEN monthKey(t)
          ELSE IF s.form \in {"iso", "ym", "dmy", "my"} THEN MonthKey(s.m, s.y)
          ELSE NullKey

parseToMonthKey_rejectsDmy(s) ==
  IF s.form = "none" THEN NullKey
  ELSE IF s.form \in {"iso", "ym"} THEN MonthKey(s.m, s.y)
  ELSE IF s.form = "my" THEN MonthKey(s.m, s.y)
  ELSE NullKey

parseToMonthKey(s) ==
  IF s.form = "none" THEN NullKey
  ELSE IF s.form \in {"iso", "ym"} THEN MonthKey(s.m, s.y)
  ELSE IF s.form = "dmy" THEN MonthKey(s.m, s.y)
  ELSE IF s.form = "my" THEN MonthKey(s.m, s.y)
  ELSE LET t == DateParse(s)
       IN IF t.k = "date" THEN monthKey(t) ELSE NullKey

adjustmentYearKeyFromDateStr(s) ==
  IF ~StrTruthy(s) THEN NullKey
  ELSE LET t == DateParse(s)
       IN IF t.k = "date" THEN YearKey(t.y)
          ELSE LET mk == parseToMonthKey(s)
               IN IF mk.k # "null" THEN YearKey(mk.yyyy) ELSE NullKey

currentAnnualKey(now) == YearKey(SetMonth(now, now.m0 - 1).y)

\* toISODateOnly(d): null for no Date; toISOString() raises RangeError on an
\* Invalid Date.
toISODateOnlyRaises(x) == x.k = "invalid"
toISODateOnly(x) == IF x.k = "date" THEN Iso(x.y, x.m0 + 1, x.d) ELSE NoStr

\* ------------------------------------------------------------ index table

\* lib/indexationData: the fixed lookup from calendar key to the published CPI
\* value (positive readings, in tenths of an index point). A key outside the
\* table has no published value.
germanIndexMonthly ==
  (<<1, 2023>> :> 1000) @@ (<<12, 2023>> :> 1050) @@ (<<1, 2024>> :> 1035) @@
  (<<2, 2024>> :> 1035) @@ (<<3, 2024>> :> 1040)

germanIndexYearly == (2023 :> 1000) @@ (2024 :> 1035)

getMonthlyIndex(key) ==
  IF key.k = "null" THEN NumNull
  ELSE IF <<key.mm, key.yyyy>> \in DOMAIN germanIndexMonthly
       THEN Num(germanIndexMonthly[<<key.mm, key.yyyy>>], 10)
       ELSE NumNull

getAnnualIndex(yearStr) ==
  IF yearStr.k = "null" THEN NumNull
  ELSE IF yearStr.yyyy \in DOMAIN germanIndexYearly
       THEN Num(germanIndexYearly[yearStr.yyyy], 10)
       ELSE NumNull

\* ------------------------------------------------------------ engine: helpers

\* s.toLowerCase().trim() on the strings the ERP holds (index labels, tenancy
\* names, flags); a string not listed is already in lower case and trimmed.
LowerTrim(name) ==
  CASE name = "VPI" -> "vpi"
    [] name = "VPI - Annual" -> "vpi - annual"
    [] name = " Vpi Automatic " -> "vpi automatic"
    [] name = "VPI Automatic - Annual" -> "vpi automatic - annual"
    [] name = " TRUE " -> "true"
    [] name = "Yes" -> "yes"
    [] name = "AC01 - 10 - VACANT" -> "ac01 - 10 - vacant"
    [] name = "AC01 - 09 - Deichmann" -> "ac01 - 09 - deichmann"
    [] name = "AC02 - 03 - Rossmann" -> "ac02 - 03 - rossmann"
    [] OTHER -> name

detectIndexKind(name) ==
  LET n == LowerTrim(name)
  IN IF n = "vpi" THEN "VPI"
     ELSE IF n = "vpi - annual" THEN "VPI - Annual"
     ELSE IF n = "vpi automatic" THEN "VPI Automatic"
     ELSE IF n = "vpi automatic - annual" THEN "VPI Automatic - Annual"
     ELSE "Other"

\* partially_passing_on is number | boolean | null: [tag, n, d] with tag "bool"
\* carrying n = 1 for true and n = 0 for false.
PppNull == [tag |-> "null", n |-> 0, d |-> 1]
PppBool(b) == [tag |-> "bool", n |-> IF b THEN 1 ELSE 0, d |-> 1]

coercePPP_zeroIsFull(v) ==
  IF v.tag = "num" THEN (IF v.n = 0 THEN One ELSE Num(v.n, v.d))
  ELSE IF v.tag = "bool" THEN (IF v.n = 1 THEN One ELSE Zero)
  ELSE One

coercePPP(v) ==
  IF v.tag = "num" THEN Num(v.n, v.d)
  ELSE IF v.tag = "bool" THEN (IF v.n = 1 THEN One ELSE Zero)
  ELSE One

\* Mutant of capIncrease: the cap <= 0 guard is dropped.
capIncrease_noSignGuard(val, cap) ==
  IF ~Truthy(cap) THEN val ELSE RatMin(val, cap)

capIncrease(val, cap) ==
  IF ~Truthy(cap) \/ RatLE(cap, Zero) THEN val ELSE RatMin(val, cap)

\* is_indexing_rent is boolean | number | string | null: [tag, b, n, s].
FlagNull == [tag |-> "null", b |-> FALSE, n |-> 0, s |-> ""]
FlagBool(b) == [tag |-> "bool", b |-> b, n |-> 0, s |-> ""]
FlagNum(n) == [tag |-> "num", b |-> FALSE, n |-> n, s |-> ""]
FlagStr(s) == [tag |-> "str", b |-> FALSE, n |-> 0, s |-> s]

isIndexingRentActive(v) ==
  IF v.tag = "bool" THEN v.b
  ELSE IF v.tag = "num" THEN v.n # 0
  ELSE IF v.tag = "str" THEN LowerTrim(v.s) \in {"1", "true", "yes", "y"}
  ELSE FALSE

\* m2oId(v): the id of a many2one [id, name], null (0) for false/null.
m2oId(v) == IF Len(v) = 2 THEN v[1] ELSE 0

\* (t.name || "").toLowerCase().includes("vacant")
NameIncludesVacant(name) == LowerTrim(name) \in {"ac01 - 10 - vacant", "vacant"}

\* Array.isArray(t.index_id) ? String(t.index_id[1]) : null, then name || "".
IndexNameOf(t) == IF Len(t.index_id) = 2 THEN t.index_id[2] ELSE ""

\* Number(x ?? 0) || 0
NumberOrZero(x) == IF IsNum(x) THEN x ELSE Zero

\* ----------------------------------------------------------- engine: verdict

Unset == "(unset)"
AbsentNum == [tag |-> "absent", n |-> 0, d |-> 1]
AbsentKey == [k |-> "absent", mm |-> 0, yyyy |-> 0]
AbsentStr == [form |-> "absent", y |-> 0, m |-> 0, d |-> 0]

\* The fields a verdict row may carry beyond baseOut, all absent.
NoFields ==
  [ index_kind |-> Unset, adjustment_month_key |-> AbsentKey,
    adjustment_year_key |-> AbsentKey, current_month_key |-> AbsentKey,
    current_year_key |-> AbsentKey, adjustment_index |-> AbsentNum,
    current_index |-> AbsentNum, delta |-> AbsentNum, eligible_now |-> FALSE,
    applied_percentage |-> AbsentNum, next_wait_date |-> AbsentStr,
    reason |-> Unset, raised |-> FALSE ]

\* The echo-only fields sales_person_id, indexing_rent, index_name,
\* adjustment_period and date_end_display carry no logic and are left out.
baseOut(t) ==
  [ id |-> t.id,
    name |-> t.name,
    main_property_id |-> t.main_property_id,
    current_rent |-> t.current_rent,
    index_id |-> t.index_id,
    lock_date |-> t.lock_date,
    adjustment_date |-> t.adjustment_date,
    threshold |-> t.threshold,
    partially_passing_on |->
      IF t.partially_passing_on.tag = "bool"
      THEN Num(t.partially_passing_on.n, 1)
      ELSE IF t.partially_passing_on.tag = "null" THEN One
      ELSE t.partially_passing_on,
    maximal_percentage |-> NumberOrZero(t.maximal_percentage),
    waiting_time |-> NumberOrZero(t.waiting_time),
    blocked_by_lock |-> FALSE ]

\* { ...baseOut(t, sales), ...fields }: fields override baseOut.
Row(t, fields) == fields @@ baseOut(t) @@ NoFields

\* -------------------------------------------------- engine: GET items map

Manual == {"VPI", "VPI - Annual"}
Automatic == {"VPI Automatic", "VPI Automatic - Annual"}
Monthly == {"VPI", "VPI Automatic"}
Annual == {"VPI - Annual", "VPI Automatic - Annual"}

\* 4) time context of the request
CurrentMonthKey(now) == prevMonthKey(now)
CurrentAnnual(now) == currentAnnualKey(now)

\* 1) lock filter
LockOf(t) == IF StrTruthy(t.lock_date) THEN DateParse(t.lock_date) ELSE NullDate
\* Mutant of BlockedByLock: lock > now instead of lock >= now.
BlockedByLock_strict(t, now) ==
  /\ LockOf(t).k # "null" /\ DateGE(LockOf(t), now)
  /\ TimeValue(LockOf(t)) # TimeValue(now)
BlockedByLock(t, now) == LockOf(t).k # "null" /\ DateGE(LockOf(t), now)

\* 2) which index
KindOf(t) == detectIndexKind(IndexNameOf(t))

\* 3) the two index values, by kind
AdjMonthKey(t) == parseToMonthKey(t.adjustment_date)
AdjYearKey(t) == adjustmentYearKeyFromDateStr(t.adjustment_date)

IAdj_yearlyForAll(t) ==
  IF KindOf(t) \in (Monthly \cup Annual) THEN getAnnualIndex(AdjYearKey(t))
  ELSE NumNull

IAdj(t) ==
  IF KindOf(t) \in Monthly THEN getMonthlyIndex(AdjMonthKey(t))
  ELSE IF KindOf(t) \in Annual THEN getAnnualIndex(AdjYearKey(t))
  ELSE NumNull

ICur(t, now) ==
  IF KindOf(t) \in Monthly THEN getMonthlyIndex(CurrentMonthKey(now))
  ELSE IF KindOf(t) \in Annual THEN getAnnualIndex(CurrentAnnual(now))
  ELSE NumNull

\* 4) prerequisites
HasAdjDate(t) == StrTruthy(t.adjustment_date)
Waiting(t) == NumberOrZero(t.waiting_time).n
Threshold(t) == NumberOrZero(t.threshold)
Ppp(t) == coercePPP(t.partially_passing_on)
Cap(t) == NumberOrZero(t.maximal_percentage)

AdjDateObj(t) == IF HasAdjDate(t) THEN DateParse(t.adjustment_date) ELSE NullDate
WaitUntil(t) ==
  IF AdjDateObj(t).k # "null" THEN addMonths(AdjDateObj(t), Waiting(t)) ELSE NullDate
\* Mutant of WaitReached: waitUntil < now instead of waitUntil <= now.
WaitReached_strict(t, now) ==
  /\ WaitUntil(t).k # "null" /\ DateLE(WaitUntil(t), now)
  /\ TimeValue(WaitUntil(t)) # TimeValue(now)
WaitReached(t, now) == WaitUntil(t).k # "null" /\ DateLE(WaitUntil(t), now)

\* 5) delta = I_cur / I_adj - 1, null unless both are truthy
\* Mutant of Delta: the ratio is inverted (I_adj / I_cur - 1).
Delta_inverted(t, now) ==
  LET a == IAdj(t)
      c == ICur(t, now)
  IN IF Truthy(a) /\ Truthy(c) THEN Num(a.n * c.d - a.d * c.n, a.d * c.n) ELSE NumNull

Delta(t, now) ==
  LET a == IAdj(t)
      c == ICur(t, now)
  IN IF Truthy(a) /\ Truthy(c) THEN Num(c.n * a.d - c.d * a.n, c.d * a.n) ELSE NumNull

\* delta ?? 0
DeltaOrZero(t, now) == IF IsNum(Delta(t, now)) THEN Delta(t, now) ELSE Zero

ThresholdHit(t, now) == RatLE(Threshold(t), DeltaOrZero(t, now))

\* 7) automatic trigger
\* Mutant of Trigger: the threshold === 0 case is not told apart.
Trigger_noZeroCase(t, now) == WaitReached(t, now) \/ ThresholdHit(t, now)

Trigger(t, now) ==
  IF Threshold(t).n = 0 THEN WaitReached(t, now)
  ELSE WaitReached(t, now) \/ ThresholdHit(t, now)

Applied(t, now) == capIncrease(RatMul(DeltaOrZero(t, now), Ppp(t)), Cap(t))

\* The keys and index values every verdict past the kind check reports.
Common(t, now) ==
  [ index_kind |-> KindOf(t),
    adjustment_month_key |-> AdjMonthKey(t),
    adjustment_year_key |-> AdjYearKey(t),
    current_month_key |-> CurrentMonthKey(now),
    current_year_key |-> CurrentAnnual(now),
    adjustment_index |-> IAdj(t),
    current_index |-> ICur(t, now) ]

\* A callback of items.map that throws: no row is produced.
Raised(t) == Row(t, [raised |-> TRUE])

NotEligible(t, now, why) ==
  Row(t, [eligible_now |-> FALSE, reason |-> why] @@ Common(t, now))

\* Not eligible, with delta and next_wait_date: toISODateOnly(waitUntil) raises
\* when waitUntil is an Invalid Date.
NotEligibleWait(t, now, why) ==
  IF toISODateOnlyRaises(WaitUntil(t)) THEN Raised(t)
  ELSE Row(t, [ delta |-> Delta(t, now), eligible_now |-> FALSE,
                next_wait_date |-> toISODateOnly(WaitUntil(t)),
                reason |-> why ] @@ Common(t, now))

\* Mutant of AppliedRow: eligible_now is true whatever the applied percentage.
AppliedRow_alwaysEligible(t, now) ==
  Row(t, [ delta |-> Delta(t, now),
           eligible_now |-> TRUE,
           applied_percentage |-> Applied(t, now) ] @@ Common(t, now))

\* Mutant of AppliedRow: an applied percentage of zero counts as eligible.
AppliedRow_zeroEligible(t, now) ==
  Row(t, [ delta |-> Delta(t, now),
           eligible_now |-> RatLE(Zero, Applied(t, now)),
           applied_percentage |-> Applied(t, now) ] @@ Common(t, now))

AppliedRow(t, now) ==
  Row(t, [ delta |-> Delta(t, now),
           eligible_now |-> RatLT(Zero, Applied(t, now)),
           applied_percentage |-> Applied(t, now) ] @@ Common(t, now))

\* Mutant of ManualLogic: the threshold is checked before the waiting time.
ManualLogic_thresholdFirst(t, now) ==
  IF ~HasAdjDate(t) THEN NotEligible(t, now, "no adjustment_date")
  ELSE IF ~Truthy(IAdj(t)) \/ ~Truthy(ICur(t, now))
  THEN NotEligible(t, now, "missing index data")
  ELSE IF RatLT(DeltaOrZero(t, now), Threshold(t))
  THEN Row(t, [ delta |-> Delta(t, now), eligible_now |-> FALSE,
                reason |-> "delta below threshold" ] @@ Common(t, now))
  ELSE IF ~WaitReached(t, now)
  THEN NotEligibleWait(t, now, "waiting_time not reached")
  ELSE AppliedRow(t, now)

ManualLogic(t, now) ==
  IF ~HasAdjDate(t) THEN NotEligible(t, now, "no adjustment_date")
  ELSE IF ~Truthy(IAdj(t)) \/ ~Truthy(ICur(t, now))
  THEN NotEligible(t, now, "missing index data")
  ELSE IF ~WaitReached(t, now)
  THEN NotEligibleWait(t, now, "waiting_time not reached")
  ELSE IF RatLT(DeltaOrZero(t, now), Threshold(t))
  THEN Row(t, [ delta |-> Delta(t, now), eligible_now |-> FALSE,
                reason |-> "delta below threshold" ] @@ Common(t, now))
  ELSE AppliedRow(t, now)

AutomaticLogic(t, now) ==
  IF ~Truthy(IAdj(t)) \/ ~Truthy(ICur(t, now)) \/ ~HasAdjDate(t)
  THEN NotEligible(t, now, "missing adjustment date or index")
  ELSE IF ~Trigger(t, now)
  THEN NotEligibleWait(t, now, "automatic: neither wait nor threshold reached")
  ELSE AppliedRow(t, now)

\* The callback of filteredTenancies.map.
EvaluateTenancy(t, now) ==
  IF BlockedByLock(t, now)
  THEN Row(t, [ blocked_by_lock |-> TRUE, eligible_now |-> FALSE,
                reason |-> "locked (lock_date >= today)" ])
  ELSE IF KindOf(t) \notin Monthly \cup Annual
  THEN Row(t, [ index_kind |-> "Other",
                adjustment_month_key |-> AdjMonthKey(t),
                adjustment_year_key |-> AdjYearKey(t),
                current_month_key |-> CurrentMonthKey(now),
                current_year_key |-> CurrentAnnual(now),
                eligible_now |-> FALSE,
                reason |-> "index kind not handled" ])
  ELSE IF KindOf(t) \in Manual THEN ManualLogic(t, now)
  ELSE AutomaticLogic(t, now)

\* ------------------------------------------------------------------- state

VARIABLES
  eNow,       \* engine: the instant `now` of the evaluation
  eTenancy,   \* engine: the tenancy record read from the ERP
  ePc,        \* engine: "start" before the evaluation, "done" after
  eVerdict,   \* engine: the outcome of the items.map callback
  now,          \* the server clock read by the eligibility query
  erpTenancies, \* ERP: the property.tenancy records, in search order
  erpRents,     \* ERP: tenancy id -> rents of its property.rent records, by id
  getQuery,     \* the query parameters of the last GET /api/tenancies
  getResp,      \* the last response of GET /api/tenancies
  ledger,       \* data store: the rows of table "indexations", in insert order
  bucket,       \* archive: the file names held by storage bucket "inbox"
  req,          \* confirmation requests: slot -> state of POST /confirm
  uArg,         \* utilities: the arguments of one call of a lib/dateKeys function
  uPc,          \* utilities: "start" before the call, "done" after
  uOut          \* utilities: the value the call returned

engineVars == <<eNow, eTenancy, ePc, eVerdict>>
systemVars == <<now, erpTenancies, erpRents, getQuery, getResp, ledger, bucket, req>>
vars == <<eNow, eTenancy, ePc, eVerdict,
          now, erpTenancies, erpRents, getQuery, getResp, ledger, bucket, req,
          uArg, uPc, uOut>>
utilVars == <<uArg, uPc, uOut>>

\* ------------------------------------------------------------ system: idle

MaxRequests == 2
Requests == 1 .. MaxRequests

\* A request without reference keys.
NoQuery == [ref_month_key |-> NullKey, ref_year_key |-> NullKey]

NoResponse == [status |-> 0, error |-> "", count |-> 0, items |-> <<>>]

NoBody ==
  [ tenancy_id |-> [fin |-> FALSE, v |-> 0], old_rent |-> [fin |-> FALSE, v |-> 0],
    new_rent |-> [fin |-> FALSE, v |-> 0], effective_date |-> NoStr,
    dry_run |-> FALSE ]

IdleRequest ==
  [ pc |-> "idle", body |-> NoBody, steps |-> <<>>, status |-> 0, ok |-> FALSE,
    error |-> "", indexation_row_id |-> 0, pdf_file_name |-> <<>>,
    pdf_upload_ok |-> FALSE, pdf_upload_error |-> FALSE, rent_record_id |-> 0,
    wrote_rent |-> FALSE, wrote_adjustment_date |-> FALSE, odoo_error |-> FALSE ]

\* ui_row.waiting_time: num is "typeof === 'number'", fin is Number.isFinite.
NoWait == [num |-> FALSE, fin |-> FALSE, v |-> 0]
WaitNaN == [num |-> TRUE, fin |-> FALSE, v |-> 0]
WaitMonths(n) == [num |-> TRUE, fin |-> TRUE, v |-> n]

NoArg ==
  [fn |-> "", date |-> NullDate, months |-> 0, str |-> NoStr,
   waiting_time |-> NoWait, next_wait_date |-> NoStr]
NoOut == [date |-> NullDate, key |-> NullKey, year |-> NullKey, str |-> NoStr]

UtilIdle == uArg = NoArg /\ uPc = "off" /\ uOut = NoOut

\* The engine specification leaves the system untouched.
SystemIdle ==
  /\ now = MkDate(2024, 3, 1, 0)
  /\ erpTenancies = <<>>
  /\ erpRents = <<>>
  /\ getQuery = NoQuery
  /\ getResp = NoResponse
  /\ ledger = <<>>
  /\ bucket = {}
  /\ req = [r \in Requests |-> IdleRequest]
  /\ UtilIdle

\* ---------------------------------------------------------- engine: inputs

Ticks == 0 .. (TicksPerDay - 1)

\* 2024-02-01, 2024-03-31, 2024-04-01 and 2025-02-10, at every tick.
NowSet ==
  { MkDate(c[1], c[2], c[3], t) :
      c \in {<<2024, 1, 1>>, <<2024, 2, 31>>, <<2024, 3, 1>>, <<2025, 1, 10>>},
      t \in Ticks }

LockDates == {NoStr, Iso(2024, 1, 1), Iso(2024, 4, 1), Iso(2030, 1, 1), JunkStr}

IndexIds ==
  { <<>>, <<1, "VPI">>, <<2, "VPI - Annual">>, <<3, " Vpi Automatic ">>,
    <<4, "VPI Automatic - Annual">>, <<5, "Staffelmiete">> }

AdjustmentDates ==
  { NoStr, Iso(2022, 6, 30), Iso(2023, 1, 1), Iso(2023, 12, 15), Iso(2024, 1, 1),
    Iso(2024, 1, 31), Dmy(15, 1, 2024), JunkStr }

WaitingTimes == {NumNull, Num(3, 1), Num(12, 1)}
Thresholds == {NumNull, Zero, Pct(20)}
PassThroughs == {PppNull, PppBool(TRUE), PppBool(FALSE), Zero, Pct(500)}
Caps == {NumNull, Pct(-10), Pct(10), Pct(100)}

TenancyRecs ==
  [ id : {1}, name : {"AC01 - 09 - Deichmann"}, main_property_id : {<<1, "AC01">>},
    current_rent : {1000}, is_indexing_rent : {FlagBool(TRUE)},
    index_id : IndexIds, lock_date : LockDates,
    adjustment_date : AdjustmentDates, threshold : Thresholds,
    partially_passing_on : PassThroughs, maximal_percentage : Caps,
    waiting_time : WaitingTimes ]

\* ------------------------------------------------- engine: specification

EngineInit ==
  /\ eNow \in NowSet
  /\ eTenancy \in TenancyRecs
  /\ ePc = "start"
  /\ eVerdict = Row(eTenancy, NoFields)
  /\ SystemIdle

\* One call of the items.map callback on the tenancy.
Evaluate ==
  /\ ePc = "start"
  /\ ePc' = "done"
  /\ eVerdict' = EvaluateTenancy(eTenancy, eNow)
  /\ UNCHANGED <<eNow, eTenancy>>
  /\ UNCHANGED systemVars
  /\ UNCHANGED utilVars

EngineNext == Evaluate

EngineSpec == EngineInit /\ [][EngineNext]_vars

\* ------------------------------------------------ system: eligibility query

MaxBatch == 2

\* ERP: the property.property records the query reads, id -> record. A
\* many2one is <<id, name>>, or <<>> for false.
Properties ==
  (1 :> [company_id |-> <<10, "Fund IV">>, reference_id |-> "AC01"]) @@
  (2 :> [company_id |-> <<11, "Eagle">>, reference_id |-> "AC02"]) @@
  (3 :> [company_id |-> <<12, "Fund III">>, reference_id |-> "BX07"]) @@
  (4 :> [company_id |-> <<>>, reference_id |-> "CY01"])

\* company && company[1] ? String(company[1]) : ""
companyName(p) == IF Len(p.company_id) = 2 THEN p.company_id[2] ELSE ""

allowedCompanyByProp ==
  {pid \in DOMAIN Properties : companyName(Properties[pid]) \in {"Fund IV", "Eagle"}}

byCompany(t) ==
  LET pid == m2oId(t.main_property_id)
  IN  pid # 0 /\ pid \in allowedCompanyByProp

nonVacant(t) == ~NameIncludesVacant(t.name)

PassesFilters(t) ==
  byCompany(t) /\ nonVacant(t) /\ isIndexingRentActive(t.is_indexing_rent)

filteredTenancies(ts) == SelectSeq(ts, PassesFilters)

\* The response of the handler once the ERP has answered: the handler has no
\* try/catch, so an exception of the items.map callback fails the request.
GetResponse(ts, n) ==
  LET f == filteredTenancies(ts)
      items == [i \in 1 .. Len(f) |-> EvaluateTenancy(f[i], n)]
  IN  IF \E i \in 1 .. Len(f) : items[i].raised
      THEN [status |-> 500, error |-> "RangeError", count |-> 0, items |-> <<>>]
      ELSE [status |-> 200, error |-> "", count |-> Len(items), items |-> items]

ErpDown == [status |-> 500, error |-> "Odoo RPC error", count |-> 0, items |-> <<>>]

\* The query strings a caller may send; the keys 12/2023 and 2023 are published.
Queries ==
  { NoQuery,
    [ref_month_key |-> MonthKey(12, 2023), ref_year_key |-> YearKey(2023)] }

\* GET /api/tenancies: read the ERP, filter, evaluate, answer. The handler is
\* declared GET() without the request, so the query string is never read.
Get ==
  /\ \E q \in Queries : getQuery' = q
  /\ \E erpOk \in BOOLEAN :
       getResp' = IF erpOk THEN GetResponse(erpTenancies, now) ELSE ErpDown
  /\ UNCHANGED <<now, erpTenancies, erpRents, ledger, bucket, req>>
  /\ UNCHANGED engineVars
  /\ UNCHANGED utilVars

\* ---- inputs of the query specification

BaseTenancy ==
  [ id |-> 1, name |-> "AC01 - 09 - Deichmann", main_property_id |-> <<1, "AC01">>,
    current_rent |-> 1000, is_indexing_rent |-> FlagBool(TRUE),
    index_id |-> <<1, "VPI">>, lock_date |-> NoStr,
    adjustment_date |-> Iso(2023, 1, 1), threshold |-> Pct(20),
    partially_passing_on |-> PppNull, maximal_percentage |-> NumNull,
    waiting_time |-> Num(12, 1) ]

SampleTenancies ==
  { BaseTenancy,
    [BaseTenancy EXCEPT !.id = 2, !.adjustment_date = Dmy(15, 1, 2024),
                        !.waiting_time = Num(3, 1)],
    [BaseTenancy EXCEPT !.id = 3, !.adjustment_date = JunkStr],
    [BaseTenancy EXCEPT !.id = 4, !.lock_date = JunkStr],
    [BaseTenancy EXCEPT !.id = 5, !.lock_date = Iso(2030, 1, 1)],
    [BaseTenancy EXCEPT !.id = 6, !.index_id = <<3, " Vpi Automatic ">>,
                        !.adjustment_date = Iso(2022, 6, 30)],
    [BaseTenancy EXCEPT !.id = 7, !.name = "AC01 - 10 - VACANT"],
    [BaseTenancy EXCEPT !.id = 8, !.main_property_id = <<3, "BX07">>],
    [BaseTenancy EXCEPT !.id = 9, !.main_property_id = <<>>],
    [BaseTenancy EXCEPT !.id = 10, !.is_indexing_rent = FlagStr(" TRUE "),
                        !.main_property_id = <<2, "AC02">>],
    [BaseTenancy EXCEPT !.id = 11, !.is_indexing_rent = FlagNum(0)],
    [BaseTenancy EXCEPT !.id = 12, !.is_indexing_rent = FlagNull,
                        !.main_property_id = <<4, "CY01">>] }

Batches == UNION { [1 .. n -> SampleTenancies] : n \in 1 .. MaxBatch }

EngineIdle ==
  /\ eNow = MkDate(2024, 3, 1, 0)
  /\ eTenancy = BaseTenancy
  /\ ePc = "off"
  /\ eVerdict = Row(BaseTenancy, NoFields)

QueryInit ==
  /\ now \in NowSet
  /\ erpTenancies \in Batches
  /\ erpRents = <<>>
  /\ getQuery = NoQuery
  /\ getResp = NoResponse
  /\ ledger = <<>>
  /\ bucket = {}
  /\ req = [r \in Requests |-> IdleRequest]
  /\ UtilIdle
  /\ EngineIdle

QueryNext == Get

QuerySpec == QueryInit /\ [][QueryNext]_vars

\* -------------------------------------------------- system: confirmation
\* POST /api/indexation/confirm, one process per request slot. Each action is
\* the code between two awaits; a remote call answers ok, answers with an
\* error object, or throws, as its client library allows. The environment
\* variables of the three clients are taken to be set.

\* Number(x): a finite number, or NaN.
Fin(v) == [fin |-> TRUE, v |-> v]
NaN == [fin |-> FALSE, v |-> 0]

Bodies ==
  { [tenancy_id |-> Fin(1), old_rent |-> Fin(1000), new_rent |-> Fin(1035),
     effective_date |-> Iso(2024, 4, 1), dry_run |-> FALSE],
    [tenancy_id |-> Fin(1), old_rent |-> Fin(1000), new_rent |-> Fin(1050),
     effective_date |-> Iso(2024, 4, 1), dry_run |-> FALSE],
    [tenancy_id |-> Fin(2), old_rent |-> Fin(500), new_rent |-> Fin(520),
     effective_date |-> JunkStr, dry_run |-> FALSE],
    [tenancy_id |-> Fin(0), old_rent |-> Fin(1000), new_rent |-> Fin(1035),
     effective_date |-> Iso(2024, 4, 1), dry_run |-> FALSE],
    [tenancy_id |-> Fin(1), old_rent |-> Fin(1000), new_rent |-> NaN,
     effective_date |-> Iso(2024, 4, 1), dry_run |-> FALSE],
    [tenancy_id |-> Fin(1), old_rent |-> Fin(1000), new_rent |-> Fin(1035),
     effective_date |-> NoStr, dry_run |-> FALSE],
    [tenancy_id |-> Fin(9), old_rent |-> Fin(1000), new_rent |-> Fin(1035),
     effective_date |-> Iso(2024, 4, 1), dry_run |-> FALSE],
    [tenancy_id |-> Fin(1), old_rent |-> Fin(1000), new_rent |-> Fin(1035),
     effective_date |-> Iso(2024, 4, 1), dry_run |-> TRUE] }

\* The first failing check of the body, "" when it passes them all.
ValidationError(b) ==
  IF ~b.tenancy_id.fin \/ b.tenancy_id.v <= 0 THEN "tenancy_id invalide"
  ELSE IF ~b.old_rent.fin THEN "old_rent invalide"
  ELSE IF ~b.new_rent.fin THEN "new_rent invalide"
  ELSE IF ~StrTruthy(b.effective_date) THEN "effective_date manquante"
  ELSE ""

\* extractTenantNo(name) ?? "0": "AC01 - 09 - Deichmann" -> "9".
extractTenantNo(name) ==
  CASE name = "AC01 - 09 - Deichmann" -> "9"
    [] name = "AC02 - 03 - Rossmann" -> "3"
    [] name = "AC01 - 10 - VACANT" -> "10"
    [] OTHER -> "0"

\* property.tenancy read([tenancy_id]): the records with that id.
TenancyById(id) == SelectSeq(erpTenancies, LAMBDA t : t.id = id)

\* slate_id of the tenancy's property, "UNKNOWN" without one.
SlateOf(t) ==
  LET pid == m2oId(t.main_property_id)
  IN  IF pid \in DOMAIN Properties THEN Properties[pid].reference_id ELSE "UNKNOWN"

\* The parts of the file name that vary: ttype, tasset and tdate.
fileName(t, effective_date) ==
  <<extractTenantNo(t.name), SlateOf(t), effective_date>>

Respond(q, status, ok, error) ==
  [q EXCEPT !.pc = "done", !.status = status, !.ok = ok, !.error = error]

Step(q, name) == [q EXCEPT !.steps = Append(q.steps, name)]

OnlyReq == <<now, erpTenancies, erpRents, getQuery, getResp, ledger, bucket>>

\* Parse and validate the body (lines 76-98).
Receive(r) ==
  /\ req[r].pc = "idle"
  /\ \E b \in Bodies :
       LET q == [req[r] EXCEPT !.body = b]
           e == ValidationError(b)
       IN  req' = [req EXCEPT ![r] =
                     IF e # "" THEN Respond(q, 400, FALSE, e)
                     ELSE [q EXCEPT !.pc = "read"]]
  /\ UNCHANGED OnlyReq
  /\ UNCHANGED engineVars
  /\ UNCHANGED utilVars

\* The ERP reads of tenancy, property, partner and rent product.
ReadErp(r) ==
  /\ req[r].pc = "read"
  /\ LET q == Step(req[r], "read")
         found == TenancyById(q.body.tenancy_id.v)
     IN  \E erpOk \in BOOLEAN :
           req' = [req EXCEPT ![r] =
                     IF ~erpOk THEN Respond(q, 500, FALSE, "Odoo RPC error")
                     ELSE IF Len(found) = 0
                       THEN Respond(q, 404, FALSE, "Tenancy introuvable dans Odoo")
                     ELSE [q EXCEPT !.pc = "insert"]]
  /\ UNCHANGED OnlyReq
  /\ UNCHANGED engineVars
  /\ UNCHANGED utilVars

\* The row the data store creates from the payload, with its generated id.
LedgerRow(b, id) ==
  [ id |-> id, tenancy_id |-> b.tenancy_id.v,
    rent_before_indexation |-> b.old_rent.v,
    rent_after_indexation |-> b.new_rent.v,
    effective_date |-> b.effective_date ]

\* The table after insert(payload): the row is added, no row is touched.
Inserted_upsert(l, row) ==
  IF \E i \in 1 .. Len(l) : l[i].tenancy_id = row.tenancy_id
  THEN [i \in 1 .. Len(l) |-> IF l[i].tenancy_id = row.tenancy_id THEN row ELSE l[i]]
  ELSE Append(l, row)

Inserted_dedup(l, row) ==
  IF \E i \in 1 .. Len(l) : [l[i] EXCEPT !.id = 0] = [row EXCEPT !.id = 0]
  THEN l
  ELSE Append(l, row)

Inserted(l, row) == Append(l, row)

\* insert(payload) into "indexations" (lines 420-431).
InsertLedger_continues(r) ==
  /\ req[r].pc = "insert"
  /\ LET q == Step(req[r], "insert")
     IN  \E outcome \in {"ok", "error", "throw"} :
           IF outcome = "ok"
           THEN /\ ledger' = Inserted(ledger, LedgerRow(q.body, Len(ledger) + 1))
                /\ req' = [req EXCEPT ![r] =
                             [q EXCEPT !.pc = "render",
                                       !.indexation_row_id = Len(ledger) + 1]]
           ELSE /\ ledger' = ledger
                /\ req' = [req EXCEPT ![r] = [q EXCEPT !.pc = "render"]]
  /\ UNCHANGED <<now, erpTenancies, erpRents, getQuery, getResp, bucket>>
  /\ UNCHANGED engineVars
  /\ UNCHANGED utilVars

InsertLedger(r) ==
  /\ req[r].pc = "insert"
  /\ LET q == Step(req[r], "insert")
     IN  \E outcome \in {"ok", "error", "throw"} :
           IF outcome = "ok"
           THEN /\ ledger' = Inserted(ledger, LedgerRow(q.body, Len(ledger) + 1))
                /\ req' = [req EXCEPT ![r] =
                             [q EXCEPT !.pc = "render",
                                       !.indexation_row_id = Len(ledger) + 1]]
           ELSE /\ ledger' = ledger
                /\ req' = [req EXCEPT ![r] =
                             Respond(q, 500, FALSE,
                                     IF outcome = "error"
                                     THEN "insert indexations echoue"
                                     ELSE "fetch failed")]
  /\ UNCHANGED <<now, erpTenancies, erpRents, getQuery, getResp, bucket>>
  /\ UNCHANGED engineVars
  /\ UNCHANGED utilVars

\* File name and generateIndexationPdf (lines 436-499): the call is outside
\* every inner try, so its exception reaches the outer catch.
RenderPdf(r) ==
  /\ req[r].pc = "render"
  /\ LET t == TenancyById(req[r].body.tenancy_id.v)[1]
         q == [Step(req[r], "render") EXCEPT
                 !.pdf_file_name = fileName(t, req[r].body.effective_date)]
     IN  \E rendered \in BOOLEAN :
           req' = [req EXCEPT ![r] =
                     IF rendered THEN [q EXCEPT !.pc = "upload"]
                     ELSE Respond(q, 500, FALSE, "render failed")]
  /\ UNCHANGED OnlyReq
  /\ UNCHANGED engineVars
  /\ UNCHANGED utilVars

\* storage.upload(fileName, pdfBytes, {upsert: false}) in its own try/catch
\* (lines 511-531): an existing name is refused.
UploadPdf(r) ==
  /\ req[r].pc = "upload"
  /\ LET q == [Step(req[r], "upload") EXCEPT !.pc = "search"]
     IN  \E outcome \in {"ok", "error", "throw"} :
           IF outcome = "ok" /\ q.pdf_file_name \notin bucket
           THEN /\ bucket' = bucket \cup {q.pdf_file_name}
                /\ req' = [req EXCEPT ![r] = [q EXCEPT !.pdf_upload_ok = TRUE]]
           ELSE /\ bucket' = bucket
                /\ req' = [req EXCEPT ![r] = [q EXCEPT !.pdf_upload_error = TRUE]]
  /\ UNCHANGED <<now, erpTenancies, erpRents, getQuery, getResp, ledger>>
  /\ UNCHANGED engineVars
  /\ UNCHANGED utilVars

\* An exception inside the try of lines 543-572 is recorded and the final
\* response is returned.
OdooFailed(q) == Respond([q EXCEPT !.odoo_error = TRUE], 200, TRUE, "")

\* The id found by search(order: "id desc", limit: 1) among the rent records
\* of a tenancy, which are kept by ascending id: the highest.
rentIds_oldest(rents) == 1

rentIds(rents) == Len(rents)

\* property.rent search, order id desc, limit 1 (lines 544-549).
SearchRent(r) ==
  /\ req[r].pc = "search"
  /\ LET q == Step(req[r], "search")
         rents == erpRents[q.body.tenancy_id.v]
     IN  \E erpOk \in BOOLEAN :
           req' = [req EXCEPT ![r] =
                     IF ~erpOk THEN OdooFailed(q)
                     ELSE IF Len(rents) > 0
                       THEN [q EXCEPT !.pc = "write_rent", !.rent_record_id = rentIds(rents)]
                     ELSE [q EXCEPT !.pc = "write_adjustment_date"]]
  /\ UNCHANGED OnlyReq
  /\ UNCHANGED engineVars
  /\ UNCHANGED utilVars

\* The rent records after write([rentId], {rent: new_rent}).
RentWritten_ifUnchanged(rents, tid, rentId, b) ==
  IF rents[tid][rentId] = b.old_rent.v
  THEN [rents EXCEPT ![tid][rentId] = b.new_rent.v]
  ELSE rents

RentWritten(rents, tid, rentId, b) == [rents EXCEPT ![tid][rentId] = b.new_rent.v]

\* property.rent write {rent: new_rent} (lines 555-559).
WriteRent(r) ==
  /\ req[r].pc = "write_rent"
  /\ LET q == Step(req[r], "write_rent")
         tid == q.body.tenancy_id.v
     IN  \E erpOk \in BOOLEAN :
           IF erpOk
           THEN /\ erpRents' = RentWritten(erpRents, tid, q.rent_record_id, q.body)
                /\ req' = [req EXCEPT ![r] =
                             [q EXCEPT !.pc = "write_adjustment_date",
                                       !.wrote_rent = TRUE]]
           ELSE /\ erpRents' = erpRents
                /\ req' = [req EXCEPT ![r] = OdooFailed(q)]
  /\ UNCHANGED <<now, erpTenancies, getQuery, getResp, ledger, bucket>>
  /\ UNCHANGED engineVars
  /\ UNCHANGED utilVars

\* property.tenancy write {adjustment_date: effective_date} (lines 564-568),
\* then the final response (lines 577-588).
WriteAdjustmentDate(r) ==
  /\ req[r].pc = "write_adjustment_date"
  /\ LET q == Step(req[r], "write_adjustment_date")
         tid == q.body.tenancy_id.v
     IN  \E erpOk \in BOOLEAN :
           IF erpOk
           THEN /\ erpTenancies' =
                     [i \in 1 .. Len(erpTenancies) |->
                        IF erpTenancies[i].id = tid
                        THEN [erpTenancies[i] EXCEPT
                                !.adjustment_date = q.body.effective_date]
                        ELSE erpTenancies[i]]
                /\ req' = [req EXCEPT ![r] =
                             Respond([q EXCEPT !.wrote_adjustment_date = TRUE],
                                     200, TRUE, "")]
           ELSE /\ erpTenancies' = erpTenancies
                /\ req' = [req EXCEPT ![r] = OdooFailed(q)]
  /\ UNCHANGED <<now, erpRents, getQuery, getResp, ledger, bucket>>
  /\ UNCHANGED engineVars
  /\ UNCHANGED utilVars

\* ---- the system specification

DemoTenancies ==
  << BaseTenancy,
     [BaseTenancy EXCEPT !.id = 2, !.name = "AC02 - 03 - Rossmann",
                         !.main_property_id = <<2, "AC02">>,
                         !.current_rent = 500,
                         !.index_id = <<4, "VPI Automatic - Annual">>] >>

Init ==
  /\ now = MkDate(2024, 3, 1, 1)
  /\ erpTenancies = DemoTenancies
  /\ erpRents = (1 :> <<900, 1000>>) @@ (2 :> <<>>)
  /\ getQuery = NoQuery
  /\ getResp = NoResponse
  /\ ledger = <<>>
  /\ bucket = {}
  /\ req = [r \in Requests |-> IdleRequest]
  /\ UtilIdle
  /\ EngineIdle

Next ==
  \/ \E r \in Requests : Receive(r)
  \/ \E r \in Requests : ReadErp(r)
  \/ \E r \in Requests : InsertLedger(r)
  \/ \E r \in Requests : RenderPdf(r)
  \/ \E r \in Requests : UploadPdf(r)
  \/ \E r \in Requests : SearchRent(r)
  \/ \E r \in Requests : WriteRent(r)
  \/ \E r \in Requests : WriteAdjustmentDate(r)
  \/ Get

Spec == Init /\ [][Next]_vars

\* ------------------------------------------------ utilities: lib/dateKeys
\* One call of a date/key function on arguments drawn from bounded sets.

MaxMonths == 14
UtilYears == {2023, 2024}

\* Every calendar day of the years, at every tick.
UtilDates ==
  { MkDate(y, m0, d, t) :
      y \in UtilYears, m0 \in 0 .. 11, d \in 1 .. 31, t \in Ticks }
  \ { x \in { MkDate(y, m0, d, t) :
                y \in UtilYears, m0 \in 0 .. 11, d \in 29 .. 31, t \in Ticks } :
        x.d > daysInMonth(x.y, x.m0) }

UtilDays == {1, 5, 12, 15, 31}

UtilStrings ==
  {NoStr, JunkStr}
  \cup { Iso(y, m, d) : y \in UtilYears, m \in 1 .. 12, d \in UtilDays }
  \cup { Ym(y, m) : y \in UtilYears, m \in 1 .. 12 }
  \cup { Dmy(d, m, y) : y \in UtilYears, m \in 1 .. 12, d \in UtilDays }
  \cup { My(m, y) : y \in UtilYears, m \in 1 .. 12 }
  \cup { Text(y, m, d) : y \in UtilYears, m \in 1 .. 12, d \in {1, 15} }

\* The effective dates a confirmation gets past its validation with: any
\* non-empty string (part_001 96-98); dates written with a day their month
\* does not have are left out.
EffectiveDates ==
  { s \in UtilStrings :
      /\ StrTruthy(s)
      /\ s.form \in {"iso", "text", "dmy"} => s.d <= daysInMonth(s.y, s.m - 1) }

SnapshotWaitingTimes == {NoWait, WaitNaN} \cup { WaitMonths(n) : n \in 0 .. MaxMonths }

UtilArgs ==
  { [NoArg EXCEPT !.fn = "addMonths", !.date = x, !.months = n] :
      x \in UtilDates, n \in (0 - MaxMonths) .. MaxMonths }
  \cup { [NoArg EXCEPT !.fn = "parseToMonthKey", !.str = s] : s \in UtilStrings }
  \cup { [NoArg EXCEPT !.fn = "referenceKeys", !.date = x] : x \in UtilDates }
  \cup { [NoArg EXCEPT !.fn = "nextPossibleIndexationDate", !.str = s,
                       !.waiting_time = w, !.next_wait_date = f] :
           s \in EffectiveDates, w \in SnapshotWaitingTimes, f \in {NoStr, Iso(2025, 1, 1)} }

UtilInit ==
  /\ uArg \in UtilArgs
  /\ uPc = "start"
  /\ uOut = NoOut
  /\ EngineIdle
  /\ now = MkDate(2024, 3, 1, 0)
  /\ erpTenancies = <<>>
  /\ erpRents = <<>>
  /\ getQuery = NoQuery
  /\ getResp = NoResponse
  /\ ledger = <<>>
  /\ bucket = {}
  /\ req = [r \in Requests |-> IdleRequest]

CallAddMonths ==
  /\ uPc = "start" /\ uArg.fn = "addMonths"
  /\ uOut' = [NoOut EXCEPT !.date = addMonths(uArg.date, uArg.months)]
  /\ uPc' = "done"
  /\ UNCHANGED <<uArg, engineVars, systemVars>>

CallParseToMonthKey ==
  /\ uPc = "start" /\ uArg.fn = "parseToMonthKey"
  /\ uOut' = [NoOut EXCEPT !.key = parseToMonthKey(uArg.str)]
  /\ uPc' = "done"
  /\ UNCHANGED <<uArg, engineVars, systemVars>>

\* The time context of the query (route.ts 182-187) at the instant uArg.date.
CallReferenceKeys ==
  /\ uPc = "start" /\ uArg.fn = "referenceKeys"
  /\ uOut' = [NoOut EXCEPT !.key = CurrentMonthKey(uArg.date),
                           !.year = CurrentAnnual(uArg.date)]
  /\ uPc' = "done"
  /\ UNCHANGED <<uArg, engineVars, systemVars>>

\* The next-possible-indexation date of the ledger payload (part_001 365-376)
\* for a confirmation with effective date uArg.str and the given ui_row fields.
CallNextPossibleIndexationDate ==
  /\ uPc = "start" /\ uArg.fn = "nextPossibleIndexationDate"
  /\ uOut' = [NoOut EXCEPT !.str =
                 next_possible_indexation_date(uArg.str, uArg.waiting_time,
                                               uArg.next_wait_date)]
  /\ uPc' = "done"
  /\ UNCHANGED <<uArg, engineVars, systemVars>>

UtilNext ==
  \/ CallAddMonths
  \/ CallParseToMonthKey
  \/ CallReferenceKeys
  \/ CallNextPossibleIndexationDate

UtilSpec == UtilInit /\ [][UtilNext]_vars

\* ------------------------------------------- engine: the claims' vocabulary
\* The notions the claims are stated in, written from the claims' own words
\* (calendar arithmetic on year/month/day numbers), not from the code.

EngineDone == ePc = "done"

DayKey(y, m, d) == y * 10000 + m * 100 + d
NowDay == DayKey(eNow.y, eNow.m0 + 1, eNow.d)

LastDayOf(y, m) ==
  IF m = 2 THEN (IF (y % 4 = 0 /\ y % 100 # 0) \/ y % 400 = 0 THEN 29 ELSE 28)
  ELSE <<31, 0, 31, 30, 31, 30, 31, 31, 30, 31, 30, 31>>[m]

\* The day that is w calendar months after the ISO date s (day of month kept,
\* clamped to the target month's last day).
AdvancedDay(s, w) ==
  LET mi == s.y * 12 + (s.m - 1) + w
      y2 == mi \div 12
      m2 == (mi % 12) + 1
  IN DayKey(y2, m2, IF s.d <= LastDayOf(y2, m2) THEN s.d ELSE LastDayOf(y2, m2))

WaitingMonths == IF IsNum(eTenancy.waiting_time) THEN eTenancy.waiting_time.n ELSE 0

\* adjustmentDate + waitingMonths <= now; an adjustment date that is not a
\* date is never reached.
WaitingReached ==
  /\ eTenancy.adjustment_date.form = "iso"
  /\ AdvancedDay(eTenancy.adjustment_date, WaitingMonths) <= NowDay

\* lockDate present and >= now (the lock date is the midnight of its day).
LockedNow ==
  /\ eTenancy.lock_date.form = "iso"
  /\ LET l == DayKey(eTenancy.lock_date.y, eTenancy.lock_date.m, eTenancy.lock_date.d)
     IN l > NowDay \/ (l = NowDay /\ eNow.t = 0)

ThresholdRatio == IF IsNum(eTenancy.threshold) THEN eTenancy.threshold ELSE Zero
AdjustmentDatePresent == eTenancy.adjustment_date.form # "none"
BothIndicesResolved == IsNum(IAdj(eTenancy)) /\ IsNum(ICur(eTenancy, eNow))
DeltaReachesThreshold ==
  IsNum(eVerdict.delta) /\ RatLE(ThresholdRatio, eVerdict.delta)

\* min(delta * passThroughRatio, capRatio) if capRatio > 0, else
\* delta * passThroughRatio, over the fields the verdict row itself reports.
CappedPassThrough(v) ==
  LET raw == RatMul(v.delta, v.partially_passing_on)
  IN IF RatLT(Zero, v.maximal_percentage)
     THEN (IF RatLE(raw, v.maximal_percentage) THEN raw ELSE v.maximal_percentage)
     ELSE raw

\* The reason of the first rule that fails, in the precedence order lock, kind,
\* adjustment date, index, waiting time, threshold, automatic trigger.
FirstFailingRule ==
  IF LockedNow THEN "locked (lock_date >= today)"
  ELSE IF KindOf(eTenancy) = "Other" THEN "index kind not handled"
  ELSE IF KindOf(eTenancy) \in Manual THEN
    (IF ~AdjustmentDatePresent THEN "no adjustment_date"
     ELSE IF ~BothIndicesResolved THEN "missing index data"
     ELSE IF ~WaitingReached THEN "waiting_time not reached"
     ELSE IF RatLT(Delta(eTenancy, eNow), ThresholdRatio) THEN "delta below threshold"
     ELSE Unset)
  ELSE
    (IF ~AdjustmentDatePresent \/ ~BothIndicesResolved
     THEN "missing adjustment date or index"
     ELSE IF ~(WaitingReached
               \/ (ThresholdRatio.n # 0 /\ RatLE(ThresholdRatio, Delta(eTenancy, eNow))))
     THEN "automatic: neither wait nor threshold reached"
     ELSE Unset)

\* ---------------------------------------------------------- engine: claims

\* C1 (as claimed): every evaluated tenancy ends in exactly one verdict: a row
\* is produced, it carries the reason of the first failing rule when a rule
\* fails, and it is eligible with no reason when none fails.
C1_ExactlyOneVerdict ==
  EngineDone =>
    /\ ~eVerdict.raised
    /\ eVerdict.reason = FirstFailingRule
    /\ eVerdict.eligible_now = (FirstFailingRule = Unset)

\* C2: a tenancy whose lock date is present and >= now is blocked by the lock
\* and not eligible, and no applied percentage is emitted, whatever its other
\* fields are.
C2_LockPrecedence ==
  (EngineDone /\ LockedNow) =>
    /\ ~eVerdict.raised
    /\ eVerdict.blocked_by_lock
    /\ ~eVerdict.eligible_now
    /\ eVerdict.applied_percentage = AbsentNum

\* C2 witness: a locked tenancy that would be eligible without its lock.
C2_Witness ==
  /\ EngineDone /\ LockedNow /\ eVerdict.blocked_by_lock
  /\ EvaluateTenancy([eTenancy EXCEPT !.lock_date = NoStr], eNow).eligible_now

\* C3 (as claimed): an eligible verdict carries the capped pass-through, and a
\* verdict that is not eligible carries no applied percentage.
C3_AppliedOnlyWhenEligible ==
  EngineDone =>
    /\ eVerdict.eligible_now =>
         /\ IsNum(eVerdict.applied_percentage)
         /\ RatEq(eVerdict.applied_percentage, CappedPassThrough(eVerdict))
    /\ ~eVerdict.eligible_now => eVerdict.applied_percentage = AbsentNum

\* C3 (amended): whenever an applied percentage is set, and so whenever the
\* tenancy is eligible, it equals min(delta * passThroughRatio, capRatio) if
\* capRatio > 0 and delta * passThroughRatio otherwise; it is set exactly on
\* the verdicts that carry no reason and are not blocked, and such a verdict is
\* eligible iff the applied percentage is > 0.
C3_AppliedPercentage ==
  EngineDone =>
    /\ eVerdict.eligible_now => IsNum(eVerdict.applied_percentage)
    /\ IsNum(eVerdict.applied_percentage) =>
         /\ IsNum(eVerdict.delta)
         /\ RatEq(eVerdict.applied_percentage, CappedPassThrough(eVerdict))
         /\ eVerdict.reason = Unset
         /\ ~eVerdict.blocked_by_lock
         /\ eVerdict.eligible_now = RatLT(Zero, eVerdict.applied_percentage)
    /\ eVerdict.reason # Unset => eVerdict.applied_percentage = AbsentNum

\* C3 witness: an eligible verdict whose cap binds.
C3_Witness ==
  /\ EngineDone /\ eVerdict.eligible_now
  /\ RatLT(Zero, eVerdict.maximal_percentage)
  /\ RatLT(eVerdict.maximal_percentage,
           RatMul(eVerdict.delta, eVerdict.partially_passing_on))
  /\ RatEq(eVerdict.applied_percentage, eVerdict.maximal_percentage)

\* The case of C4: an automatic kind with thresholdRatio = 0, an adjustment
\* date and both indices resolved (and no lock in force).
C4_Case ==
  /\ EngineDone /\ ~LockedNow
  /\ KindOf(eTenancy) \in Automatic
  /\ ThresholdRatio.n = 0
  /\ AdjustmentDatePresent /\ BothIndicesResolved

C5_BatchNeverRaises ==
  (getResp.status # 0 /\ getResp # ErpDown) =>
    /\ getResp.status = 200
    /\ getResp.count = Len(filteredTenancies(erpTenancies))
    /\ \A i \in 1 .. getResp.count :
         getResp.items[i].id = filteredTenancies(erpTenancies)[i].id

\* C6: on every verdict delta is a number exactly when both reported index
\* values are numbers, and then delta = current / previous - 1; a verdict
\* reporting an unresolved index reports no delta.
C6_Delta ==
  EngineDone =>
    LET a == eVerdict.adjustment_index
        c == eVerdict.current_index
        dl == eVerdict.delta
    IN /\ (IsNum(a) /\ IsNum(c)) <=> IsNum(dl)
       /\ IsNum(dl) => (dl.n + dl.d) * (a.n * c.d) = dl.d * (c.n * a.d)
       /\ (a = NumNull \/ c = NumNull) => dl \in {NumNull, AbsentNum}

\* C6 witness: a verdict with both indices resolved and a negative delta.
C6_Witness ==
  /\ EngineDone
  /\ IsNum(eVerdict.adjustment_index) /\ IsNum(eVerdict.current_index)
  /\ IsNum(eVerdict.delta) /\ RatLT(eVerdict.delta, Zero)

C8_Trigger ==
  IF ThresholdRatio.n = 0 THEN WaitingReached
  ELSE WaitingReached \/ RatLE(ThresholdRatio, Delta(eTenancy, eNow))

\* C8: for an automatic kind with adjustment date and both indices present,
\* the verdict passes the trigger (an applied percentage is computed) iff
\* waiting is reached when thresholdRatio = 0, and iff waiting is reached or
\* delta >= thresholdRatio otherwise; when the trigger does not hold the
\* verdict is not eligible.
C8_AutomaticTrigger ==
  ( /\ EngineDone /\ ~LockedNow /\ KindOf(eTenancy) \in Automatic
    /\ AdjustmentDatePresent /\ BothIndicesResolved ) =>
    /\ IsNum(eVerdict.applied_percentage) <=> C8_Trigger
    /\ ~C8_Trigger => ~eVerdict.eligible_now
    /\ eVerdict.reason = "automatic: neither wait nor threshold reached" => ~C8_Trigger

\* C8 witness: a non-zero threshold reached before the waiting time.
C8_Witness ==
  /\ EngineDone /\ ~LockedNow /\ KindOf(eTenancy) \in Automatic
  /\ ThresholdRatio.n # 0 /\ ~WaitingReached
  /\ eVerdict.eligible_now

CappedRawDelta(v) ==
  IF RatLT(Zero, v.maximal_percentage)
  THEN (IF RatLE(v.delta, v.maximal_percentage) THEN v.delta ELSE v.maximal_percentage)
  ELSE v.delta

PassThroughAbsent == eTenancy.partially_passing_on = PppNull
PassThroughZero == eTenancy.partially_passing_on = Zero

\* C20 (as claimed): a tenancy whose pass-through ratio is absent or
\* numerically zero gets, whenever an applied percentage is computed, the
\* capped raw delta.
C20_ZeroOrAbsentIsFull ==
  (EngineDone /\ IsNum(eVerdict.applied_percentage)
     /\ (PassThroughAbsent \/ PassThroughZero)) =>
    RatEq(eVerdict.applied_percentage, CappedRawDelta(eVerdict))

\* C20 (amended): only an absent pass-through ratio is treated as full
\* pass-through, its applied percentage being the capped raw delta; a ratio
\* that is numerically zero passes nothing on: the applied percentage is then
\* min(0, cap) if the cap is > 0 and 0 otherwise, hence never > 0, and the
\* tenancy is not eligible.
C20_AbsentIsFullZeroIsZero ==
  (EngineDone /\ IsNum(eVerdict.applied_percentage)) =>
    /\ PassThroughAbsent =>
         RatEq(eVerdict.applied_percentage, CappedRawDelta(eVerdict))
    /\ PassThroughZero =>
         /\ RatEq(eVerdict.applied_percentage, Zero)
         /\ ~eVerdict.eligible_now

\* C20 witness: a numerically zero pass-through ratio on a tenancy whose
\* trigger holds with a positive delta: applied percentage 0, not eligible.
C20_Witness ==
  /\ EngineDone /\ PassThroughZero
  /\ IsNum(eVerdict.delta) /\ RatLT(Zero, eVerdict.delta)
  /\ RatEq(eVerdict.applied_percentage, Zero)
  /\ ~eVerdict.eligible_now

\* The month and year the adjustment date names, <<>> when it names none.
AdjustmentMonth ==
  IF eTenancy.adjustment_date.form \in {"iso", "dmy"}
  THEN <<eTenancy.adjustment_date.m, eTenancy.adjustment_date.y>>
  ELSE <<>>

\* The value published under a month <<mm, yyyy>> or a year, null when none.
PublishedMonthly(my) ==
  IF my \in DOMAIN germanIndexMonthly THEN Num(germanIndexMonthly[my], 10) ELSE NumNull
PublishedYearly(y) ==
  IF y \in DOMAIN germanIndexYearly THEN Num(germanIndexYearly[y], 10) ELSE NumNull

\* C21: a verdict of a monthly kind reports as previous index the value
\* published for the month of the adjustment date and as current index the
\* value published for its reference month key; a verdict of an annual kind
\* reports the values published for the year of the adjustment date and for
\* its reference year key; a key with no published value gives null.
C21_IndexResolution ==
  (EngineDone /\ ~eVerdict.raised /\ eVerdict.index_kind \in (Monthly \cup Annual)) =>
    LET v == eVerdict
        am == AdjustmentMonth
    IN  /\ v.index_kind \in Monthly =>
             /\ v.adjustment_index =
                  (IF am = <<>> THEN NumNull ELSE PublishedMonthly(am))
             /\ v.current_index =
                  PublishedMonthly(<<v.current_month_key.mm, v.current_month_key.yyyy>>)
        /\ v.index_kind \in Annual =>
             /\ v.adjustment_index =
                  (IF am = <<>> THEN NumNull ELSE PublishedYearly(am[2]))
             /\ v.current_index = PublishedYearly(v.current_year_key.yyyy)

\* C21 witness: a monthly verdict whose previous index is the value of 12/2023,
\* which differs from the yearly value of 2023.
C21_Witness ==
  /\ EngineDone /\ eVerdict.index_kind \in Monthly
  /\ AdjustmentMonth = <<12, 2023>>
  /\ eVerdict.adjustment_index = Num(1050, 10)
  /\ PublishedYearly(2023) # eVerdict.adjustment_index
  /\ IsNum(eVerdict.current_index)

\* C28: every verdict with eligible_now = true is not blocked by a lock, has
\* one of the four VPI kinds, has an adjustment date, reports both index
\* values and the delta as numbers, has an applied percentage that is a number
\* > 0, and carries no reason.
C28_EligibleImplies ==
  (EngineDone /\ eVerdict.eligible_now) =>
    /\ ~eVerdict.raised
    /\ ~eVerdict.blocked_by_lock
    /\ eVerdict.index_kind \in (Manual \cup Automatic)
    /\ AdjustmentDatePresent /\ StrTruthy(eVerdict.adjustment_date)
    /\ IsNum(eVerdict.adjustment_index) /\ IsNum(eVerdict.current_index)
    /\ IsNum(eVerdict.delta)
    /\ IsNum(eVerdict.applied_percentage)
    /\ RatLT(Zero, eVerdict.applied_percentage)
    /\ eVerdict.reason = Unset

\* C28 witness: an eligible verdict of an automatic annual tenancy whose lock
\* date has passed.
C28_Witness ==
  /\ EngineDone /\ eVerdict.eligible_now
  /\ eVerdict.index_kind = "VPI Automatic - Annual"
  /\ StrTruthy(eTenancy.lock_date) /\ ~eVerdict.blocked_by_lock
  /\ RatLT(Zero, eVerdict.applied_percentage)

\* A tenancy that is to have a verdict row, in the words of C30: its main
\* property's company is named "Fund IV" or "Eagle", its name does not contain
\* "vacant" and is_indexing_rent is active.
ShouldHaveRow(t) ==
  /\ t.main_property_id # <<>>
  /\ t.main_property_id[1] \in DOMAIN Properties
  /\ LET c == Properties[t.main_property_id[1]].company_id
     IN  c # <<>> /\ c[2] \in {"Fund IV", "Eagle"}
  /\ ~NameIncludesVacant(t.name)
  /\ isIndexingRentActive(t.is_indexing_rent)

RowsFor(id) == { i \in 1 .. Len(getResp.items) : getResp.items[i].id = id }
PassingWith(id) ==
  { j \in 1 .. Len(erpTenancies) :
      erpTenancies[j].id = id /\ ShouldHaveRow(erpTenancies[j]) }

OneRowPerPassingTenancy ==
  /\ \A j \in 1 .. Len(erpTenancies) :
       Cardinality(RowsFor(erpTenancies[j].id))
         = Cardinality(PassingWith(erpTenancies[j].id))
  /\ \A i \in 1 .. Len(getResp.items) : PassingWith(getResp.items[i].id) # {}
  /\ getResp.count = Len(getResp.items)

\* C30 (as claimed): once the ERP has answered the eligibility query, the
\* response holds exactly one verdict row for each tenancy that passes the
\* three filters, no row for any other tenancy, and count is the number of rows.
C30_OneRowPerPassingTenancy ==
  (getResp.status # 0 /\ getResp # ErpDown) => OneRowPerPassingTenancy

\* The same statement for the responses that carry rows (status 200): it holds
\* on all of them.
C30_OnRows == getResp.status = 200 => OneRowPerPassingTenancy

\* A 200 response to a batch of a passing tenancy and a tenancy without main
\* property: one row, for the first.
C30_Filtered ==
  /\ getResp.status = 200 /\ getResp.count = 1
  /\ Len(erpTenancies) = 2
  /\ ShouldHaveRow(erpTenancies[1]) /\ erpTenancies[2].main_property_id = <<>>
  /\ getResp.items[1].id = erpTenancies[1].id

\* ---------------------------------------------------------- system: claims

SideEffects == {"render", "upload", "write_rent", "write_adjustment_date"}

InsertAttempted(q) == \E j \in 1 .. Len(q.steps) : q.steps[j] = "insert"

InsertSucceeded(q) ==
  /\ q.indexation_row_id \in 1 .. Len(ledger)
  /\ ledger[q.indexation_row_id].tenancy_id = q.body.tenancy_id.v

\* C10: in every confirmation request, letter rendering, archival upload and
\* each ERP write come after the ledger insert of that request and only when
\* the insert created a row; a request whose insert failed has answered with
\* an error right after the insert, with none of them performed.
C10_LedgerInsertFirst ==
  \A r \in Requests :
    LET q == req[r]
    IN  /\ \A i \in 1 .. Len(q.steps) :
             q.steps[i] \in SideEffects =>
               /\ \E j \in 1 .. (i - 1) : q.steps[j] = "insert"
               /\ InsertSucceeded(q)
        /\ (InsertAttempted(q) /\ ~InsertSucceeded(q)) =>
             /\ q.pc = "done" /\ q.status = 500 /\ ~q.ok
             /\ q.steps[Len(q.steps)] = "insert"
             /\ ~q.pdf_upload_ok /\ ~q.wrote_rent /\ ~q.wrote_adjustment_date

\* C10 witness: one request wrote the rent to the ERP after its insert while
\* another was aborted by a failed insert.
C10_Witness ==
  \E r1, r2 \in Requests :
    /\ req[r1].wrote_rent /\ InsertSucceeded(req[r1])
    /\ InsertAttempted(req[r2]) /\ ~InsertSucceeded(req[r2])
    /\ req[r2].status = 500

Attempted(q, name) == \E j \in 1 .. Len(q.steps) : q.steps[j] = name

\* A request that has answered after its ledger insert created a row.
DoneAfterInsert(q) == q.pc = "done" /\ InsertSucceeded(q)

\* C11 (as claimed): once the ledger insert of a request has succeeded, the
\* ERP write-back of that request is attempted (it starts with the search of
\* the rent record), whether or not letter generation or upload failed.
C11_WriteBackAfterLetterFailure ==
  \A r \in Requests :
    DoneAfterInsert(req[r]) => Attempted(req[r], "search")

\* C12 (as claimed): a request whose ERP write-back was entered attempts the
\* adjustment-date write, whatever became of the rent search and rent write.
C12_IndependentWrites ==
  \A r \in Requests :
    (DoneAfterInsert(req[r]) /\ Attempted(req[r], "search")) =>
      Attempted(req[r], "write_adjustment_date")

\* C13 (as claimed): a request whose ledger insert succeeded answers with a
\* success carrying the ledger row id, and an error response is returned only
\* by a request that saved no ledger row.
C13_PostInsertNonFatal ==
  \A r \in Requests :
    req[r].pc = "done" =>
      /\ InsertSucceeded(req[r]) => (req[r].status = 200 /\ req[r].ok)
      /\ req[r].status # 200 => ~InsertSucceeded(req[r])

\* The required fields of a confirmation, in the claim's words: tenancy id a
\* positive number, both rents finite numbers, effective date a YYYY-MM-DD date.
WellFormedBody(b) ==
  /\ b.tenancy_id.fin /\ b.tenancy_id.v > 0
  /\ b.old_rent.fin /\ b.new_rent.fin
  /\ b.effective_date.form = "iso"

\* C14 (as claimed): a confirmation whose required fields are missing or
\* malformed is rejected with 400 at once, with no remote call attempted.
C14_RejectedImmediately ==
  \A r \in Requests :
    (req[r].pc # "idle" /\ ~WellFormedBody(req[r].body)) =>
      /\ req[r].pc = "done" /\ req[r].status = 400
      /\ req[r].steps = <<>>

\* C15 (as claimed): when the query supplies reference keys, every verdict
\* that resolves a current index reports the supplied key and the index
\* published under it, for monthly and annual kinds alike.
C15_ReferenceKeysUsed ==
  (getResp.status = 200 /\ getQuery # NoQuery) =>
    \A i \in 1 .. getResp.count :
      LET v == getResp.items[i]
      IN  /\ v.index_kind \in Monthly =>
                /\ v.current_month_key = getQuery.ref_month_key
                /\ v.current_index \in {AbsentNum, getMonthlyIndex(getQuery.ref_month_key)}
          /\ v.index_kind \in Annual =>
                /\ v.current_year_key = getQuery.ref_year_key
                /\ v.current_index \in {AbsentNum, getAnnualIndex(getQuery.ref_year_key)}

\* C16: in every step of the system (confirmation steps and eligibility
\* queries alike) each ledger row already inserted stays as it is and none is
\* removed: the ledger only grows by inserts.
C16_LedgerImmutable ==
  [][ /\ Len(ledger') >= Len(ledger)
      /\ \A i \in 1 .. Len(ledger) : ledger'[i] = ledger[i] ]_vars

\* C16 witness: two rows for the same tenancy are in the ledger after one
\* confirmation failed at the ERP and the other wrote the adjustment date,
\* and an eligibility query has been answered.
C16_Witness ==
  /\ Len(ledger) = 2
  /\ ledger[1].tenancy_id = ledger[2].tenancy_id
  /\ \E r1, r2 \in Requests :
       /\ req[r1].pc = "done" /\ req[r1].odoo_error
       /\ req[r2].pc = "done" /\ req[r2].wrote_adjustment_date
  /\ getResp.status = 200

\* ------------------------------------------------------- utilities: claims

\* The month count of the target month: the argument's month advanced by n.
TargetMonth == uArg.date.y * 12 + uArg.date.m0 + uArg.months

\* C17: addMonths(date, n) lands in the month n calendar months after the
\* month of date, year carried, on the original day of month when the target
\* month has it and on the target month's last day otherwise; 2024-01-31 + 1
\* is 2024-02-29 and 2023-01-31 + 1 is 2023-02-28.
C17_AddMonths ==
  (uPc = "done" /\ uArg.fn = "addMonths") =>
    LET ty == TargetMonth \div 12
        tm == (TargetMonth % 12) + 1
        last == LastDayOf(ty, tm)
    IN  /\ uOut.date.k = "date"
        /\ uOut.date.y = ty /\ uOut.date.m0 + 1 = tm
        /\ uOut.date.d = (IF uArg.date.d <= last THEN uArg.date.d ELSE last)
        /\ (uArg.date.y = 2024 /\ uArg.date.m0 = 0 /\ uArg.date.d = 31
              /\ uArg.months = 1) =>
             (uOut.date.y = 2024 /\ uOut.date.m0 = 1 /\ uOut.date.d = 29)
        /\ (uArg.date.y = 2023 /\ uArg.date.m0 = 0 /\ uArg.date.d = 31
              /\ uArg.months = 1) =>
             (uOut.date.y = 2023 /\ uOut.date.m0 = 1 /\ uOut.date.d = 28)

\* C17 witness: 2024-01-31 + 1 month has been computed and is 2024-02-29.
C17_Witness ==
  /\ uPc = "done" /\ uArg.fn = "addMonths"
  /\ uArg.date.y = 2024 /\ uArg.date.m0 = 0 /\ uArg.date.d = 31 /\ uArg.months = 1
  /\ uOut.date.y = 2024 /\ uOut.date.m0 = 1 /\ uOut.date.d = 29

\* The string a month key is: "MM/YYYY".
KeyString(key) == My(key.mm, key.yyyy)

ParseDone == uPc = "done" /\ uArg.fn = "parseToMonthKey"

\* C18 (as claimed): a YYYY-MM-DD input maps to the MM/YYYY of its month and
\* year, an MM/YYYY input is returned unchanged, and a DD/MM/YYYY input such
\* as "15/06/2024" is rejected with null.
C18_RoundTripRejectsDmy ==
  ParseDone =>
    /\ uArg.str.form = "iso" => uOut.key = MonthKey(uArg.str.m, uArg.str.y)
    /\ uArg.str.form = "my" => KeyString(uOut.key) = uArg.str
    /\ uArg.str.form = "dmy" => uOut.key = NullKey

\* C18 (amended): a YYYY-MM-DD input maps to the MM/YYYY of its month and
\* year, an MM/YYYY input is returned unchanged, parsing a non-null output
\* again returns it, and a DD/MM/YYYY input such as "15/06/2024" is accepted
\* and maps to the MM/YYYY of its month and year ("06/2024").
C18_RoundTrip ==
  ParseDone =>
    /\ uArg.str.form = "iso" => uOut.key = MonthKey(uArg.str.m, uArg.str.y)
    /\ uArg.str.form = "my" => KeyString(uOut.key) = uArg.str
    /\ uOut.key # NullKey => parseToMonthKey(KeyString(uOut.key)) = uOut.key
    /\ uArg.str.form = "dmy" => uOut.key = MonthKey(uArg.str.m, uArg.str.y)

\* C18 witness: "15/06/2024" has been parsed and gave "06/2024".
C18_Witness ==
  /\ ParseDone
  /\ uArg.str = Dmy(15, 6, 2024)
  /\ uOut.key = MonthKey(6, 2024)

\* The first of the formats YYYY-MM-DD, YYYY-MM, DD/MM/YYYY, MM/YYYY, generic
\* date string that the input matches, "" when it matches none.
FirstFormat(s) ==
  CASE s.form \in {"iso", "ym", "dmy", "my"} -> s.form
    [] s.form = "text" -> "generic"
    [] OTHER -> ""

\* C19: parseToMonthKey returns the month key read by the first format the
\* input matches, in the order YYYY-MM-DD, YYYY-MM, DD/MM/YYYY, MM/YYYY,
\* generic date, and null when it matches none, the empty string included.
C19_FormatPrecedence ==
  ParseDone =>
    LET s == uArg.str
        f == FirstFormat(s)
    IN  /\ f \in {"iso", "ym", "dmy", "my"} => uOut.key = MonthKey(s.m, s.y)
        /\ f = "generic" => uOut.key = MonthKey(s.m, s.y)
        /\ f = "" => uOut.key = NullKey

\* C19 witness: "05/06/2024", which the generic parser would read as May 6,
\* has been parsed by the DD/MM/YYYY format and gave "06/2024".
C19_Witness ==
  /\ ParseDone
  /\ uArg.str = Dmy(5, 6, 2024)
  /\ DateParse(uArg.str).m0 + 1 = 5
  /\ uOut.key = MonthKey(6, 2024)

\* The month count of the calendar month before the month of the argument.
PrecedingMonth == uArg.date.y * 12 + uArg.date.m0 - 1

\* C22: with no reference key supplied, the reference month key is the
\* calendar month immediately before now (December of the previous year in
\* January) and the reference year key is the year of that month, on every
\* day of month of now; the year part of the month key is the year key.
C22_DefaultReferenceKeys ==
  (uPc = "done" /\ uArg.fn = "referenceKeys") =>
    /\ uOut.key = MonthKey((PrecedingMonth % 12) + 1, PrecedingMonth \div 12)
    /\ uOut.year = YearKey(PrecedingMonth \div 12)
    /\ uOut.key.yyyy = uOut.year.yyyy

\* C22 witness: the keys of now = 2024-03-31 (February has no 31st) have been
\* computed and are 02/2024 and 2024.
C22_Witness ==
  /\ uPc = "done" /\ uArg.fn = "referenceKeys"
  /\ uArg.date.y = 2024 /\ uArg.date.m0 = 2 /\ uArg.date.d = 31
  /\ uOut.key = MonthKey(2, 2024) /\ uOut.year = YearKey(2024)

\* A confirmation that went through: answered 200 with no ERP error captured.
WentThrough(q) == q.pc = "done" /\ q.status = 200 /\ ~q.odoo_error

HasRentRecord(q) == Len(erpRents[q.body.tenancy_id.v]) > 0

\* C23: two confirmations with the same body that both went through have each
\* created a ledger row of their own, the two rows differing in their id only,
\* and have each performed the rent write and the adjustment-date write; the
\* second is neither deduplicated nor blocked.
C23_DuplicateConfirmations ==
  \A r1, r2 \in Requests :
    (r1 # r2 /\ req[r1].body = req[r2].body
       /\ WentThrough(req[r1]) /\ WentThrough(req[r2])) =>
      /\ InsertSucceeded(req[r1]) /\ InsertSucceeded(req[r2])
      /\ req[r1].indexation_row_id # req[r2].indexation_row_id
      /\ [ledger[req[r1].indexation_row_id] EXCEPT !.id = 0]
           = [ledger[req[r2].indexation_row_id] EXCEPT !.id = 0]
      /\ req[r1].wrote_adjustment_date /\ req[r2].wrote_adjustment_date
      /\ HasRentRecord(req[r1]) => (req[r1].wrote_rent /\ req[r2].wrote_rent)

\* C23 witness: the same confirmation went through twice; the archive refused
\* the second letter (same file name) and the ERP writes were still made.
C23_Witness ==
  /\ Len(ledger) = 2
  /\ req[1].body = req[2].body
  /\ WentThrough(req[1]) /\ WentThrough(req[2])
  /\ req[1].pdf_upload_ok /\ req[2].pdf_upload_error
  /\ req[1].wrote_rent /\ req[2].wrote_rent
  /\ req[1].wrote_adjustment_date /\ req[2].wrote_adjustment_date

\* The rent the ERP holds for a tenancy: that of its most recent rent record.
ErpRent(rents, tid) == rents[tid][Len(rents[tid])]

\* C24: confirmations of the same tenancy interleave freely; every rent write
\* that is executed sets the ERP rent of the tenancy to the new rent of its
\* own confirmation, whatever the rent was, and the rent changes in no other
\* step, so the rent is that of the write executed last; once two
\* confirmations have written, both their ledger rows exist.
C24_LastWriteWins ==
  [][ /\ \A r \in Requests :
          (~req[r].wrote_rent /\ req'[r].wrote_rent) =>
            ErpRent(erpRents', req[r].body.tenancy_id.v) = req[r].body.new_rent.v
      /\ erpRents' # erpRents =>
          \E r \in Requests : ~req[r].wrote_rent /\ req'[r].wrote_rent
      /\ \A r1, r2 \in Requests :
          (r1 # r2 /\ req'[r1].wrote_rent /\ req'[r2].wrote_rent) =>
            /\ InsertSucceeded(req[r1])' /\ InsertSucceeded(req[r2])'
            /\ req'[r1].indexation_row_id # req'[r2].indexation_row_id ]_vars

\* C24 witness: two confirmations of tenancy 1 with different new rents have
\* overlapped: the one that inserted its ledger row first made its rent write
\* last, and the ERP rent is its new rent.
C24_Witness ==
  /\ req[1].wrote_rent /\ req[2].wrote_rent
  /\ req[1].body.tenancy_id = req[2].body.tenancy_id
  /\ req[1].body.new_rent # req[2].body.new_rent
  /\ req[2].indexation_row_id < req[1].indexation_row_id
  /\ req[1].pc = "done" /\ req[2].pc = "done"
  /\ ErpRent(erpRents, 1) = req[2].body.new_rent.v

NamesMonth(s) == s.form \in {"iso", "text", "dmy", "ym", "my"}
EffectiveMonth(s) == s.y * 12 + (s.m - 1)

NextPossibleDone == uPc = "done" /\ uArg.fn = "nextPossibleIndexationDate"

\* C25 (as claimed): with a numeric waiting time the next-possible-indexation
\* date is the first day of the month waitingMonths calendar months after the
\* month of the effective date, whatever its day; without one it is the
\* snapshot's next_wait_date.
C25_NextPossibleIndexationDate ==
  NextPossibleDone =>
    IF uArg.waiting_time.num /\ uArg.waiting_time.fin
    THEN /\ uOut.str.form = "iso" /\ uOut.str.d = 1
         /\ NamesMonth(uArg.str) =>
              uOut.str.y * 12 + (uOut.str.m - 1)
                = EffectiveMonth(uArg.str) + uArg.waiting_time.v
    ELSE uOut.str = uArg.next_wait_date

\* The same statement for the effective dates of the request format,
\* YYYY-MM-DD: it holds on all of them.
C25_OnRequestFormat ==
  (NextPossibleDone /\ uArg.str.form = "iso") => C25_NextPossibleIndexationDate

\* The date of a confirmation effective 2024-11-15 with 14 waiting months is
\* 2026-01-01.
C25_Carry ==
  /\ NextPossibleDone
  /\ uArg.str = Iso(2024, 11, 15) /\ uArg.waiting_time = WaitMonths(14)
  /\ uOut.str = Iso(2026, 1, 1)

\* C26 (as claimed): the archive file name of a confirmation carries the
\* identifier of its ledger row, so two confirmations whose ledger rows differ
\* have named their letters differently.
C26_FileNameEmbedsLedgerId ==
  \A r1, r2 \in Requests :
    ( /\ r1 # r2
      /\ InsertSucceeded(req[r1]) /\ Attempted(req[r1], "render")
      /\ InsertSucceeded(req[r2]) /\ Attempted(req[r2], "render")
      /\ req[r1].indexation_row_id # req[r2].indexation_row_id )
    => req[r1].pdf_file_name # req[r2].pdf_file_name

\* C27 (as claimed): a request posted with dry_run = true inserts no ledger
\* row, uploads nothing and writes nothing to the ERP.
C27_PreviewHasNoEffect ==
  \A r \in Requests :
    req[r].body.dry_run =>
      /\ ~Attempted(req[r], "insert") /\ ~Attempted(req[r], "upload")
      /\ ~Attempted(req[r], "write_rent")
      /\ ~Attempted(req[r], "write_adjustment_date")
      /\ req[r].indexation_row_id = 0
      /\ ~req[r].pdf_upload_ok /\ ~req[r].wrote_rent
      /\ ~req[r].wrote_adjustment_date

====
